---- MODULE Spec2Model ----
(***************************************************************************)
(* Model of the image-reference parser of src/src/container.rs             *)
(* (ImageSelector::parse) and of the reconstruction closure used by        *)
(* tests/container/image_selector.rs.                                       *)
(*                                                                         *)
(* A Rust &str / String is a sequence of one-character strings.            *)
(* Option<T> is a sequence of length 0 (None) or 1 (Some(x) == <<x>>).     *)
(***************************************************************************)
EXTENDS Integers, Sequences, FiniteSets, TLC

\* ------------------------------------------------------------------------
\* Bounds of the model
\* ------------------------------------------------------------------------

\* longest input string handed to the parser
MaxLen == 7

\* characters inputs are made of: one ordinary character and the four
\* delimiters the parser looks at
Alphabet == {"a", "@", "=", ":", "/"}

\* the input strings of length n
StringsOfLen(n) == [1..n -> Alphabet]

\* ------------------------------------------------------------------------
\* Option<T>
\* ------------------------------------------------------------------------

None == << >>

Some(x) == <<x>>

IsSome(o) == Len(o) = 1

Unwrap(o) == o[1]

\* ------------------------------------------------------------------------
\* str::find / str::rfind / str::split_once / str::rsplit_once
\* ------------------------------------------------------------------------

\* index of the first occurrence of c in s at or after position i, 0 if none
RECURSIVE find(_, _, _)
find(s, c, i) ==
    IF i > Len(s) THEN 0
    ELSE IF s[i] = c THEN i
    ELSE find(s, c, i + 1)

\* index of the last occurrence of c in s at or before position i, 0 if none
RECURSIVE rfind(_, _, _)
rfind(s, c, i) ==
    IF i < 1 THEN 0
    ELSE IF s[i] = c THEN i
    ELSE rfind(s, c, i - 1)

\* s.split_once(c): Some((before first c, after first c)) or None
split_once(s, c) ==
    LET i == find(s, c, 1)
    IN  IF i = 0 THEN None
        ELSE Some(<<SubSeq(s, 1, i - 1), SubSeq(s, i + 1, Len(s))>>)

\* s.rsplit_once(c): Some((before last c, after last c)) or None
rsplit_once(s, c) ==
    LET i == rfind(s, c, Len(s))
    IN  IF i = 0 THEN None
        ELSE Some(<<SubSeq(s, 1, i - 1), SubSeq(s, i + 1, Len(s))>>)

\* ------------------------------------------------------------------------
\* ImageSelectorParseError, ImageDigest, ImageSelector
\* ------------------------------------------------------------------------

MissingRepository == [kind |-> "MissingRepository"]

InvalidDigestFormat(text) == [kind |-> "InvalidDigestFormat", text |-> text]

ImageDigest(algo, hash) == [algorithm |-> algo, hash |-> hash]

ImageSelector(namespace, repository, tag, digest) ==
    [namespace |-> namespace, repository |-> repository,
     tag |-> tag, digest |-> digest]

Ok(selector) == [kind |-> "Ok", selector |-> selector]

Err(e) == e

IsOk(r) == r.kind = "Ok"

is_empty(s) == Len(s) = 0

\* ------------------------------------------------------------------------
\* ImageSelector::parse, in the order of its three splits
\* ------------------------------------------------------------------------

\* DigestStage with the hash.is_empty() test left out
DigestStage_AcceptEmptyHash(s) ==
    LET at == split_once(s, "@")
    IN  IF IsSome(at)
        THEN LET rest       == Unwrap(at)[1]
                 digest_ref == Unwrap(at)[2]
                 eq         == split_once(digest_ref, "=")
             IN  IF IsSome(eq)
                 THEN LET algo == Unwrap(eq)[1]
                          hash == Unwrap(eq)[2]
                      IN  IF is_empty(algo)
                          THEN [ret |-> TRUE,
                                value |-> Err(InvalidDigestFormat(digest_ref))]
                          ELSE [ret |-> FALSE, s |-> rest,
                                digest |-> Some(ImageDigest(algo, hash))]
                 ELSE [ret |-> TRUE,
                       value |-> Err(InvalidDigestFormat(digest_ref))]
        ELSE [ret |-> FALSE, s |-> s, digest |-> None]

\* DigestStage with digest_ref.rsplit_once('=') in place of split_once('=')
DigestStage_LastEq(s) ==
    LET at == split_once(s, "@")
    IN  IF IsSome(at)
        THEN LET rest       == Unwrap(at)[1]
                 digest_ref == Unwrap(at)[2]
                 eq         == rsplit_once(digest_ref, "=")
             IN  IF IsSome(eq)
                 THEN LET algo == Unwrap(eq)[1]
                          hash == Unwrap(eq)[2]
                      IN  IF is_empty(algo) \/ is_empty(hash)
                          THEN [ret |-> TRUE,
                                value |-> Err(InvalidDigestFormat(digest_ref))]
                          ELSE [ret |-> FALSE, s |-> rest,
                                digest |-> Some(ImageDigest(algo, hash))]
                 ELSE [ret |-> TRUE,
                       value |-> Err(InvalidDigestFormat(digest_ref))]
        ELSE [ret |-> FALSE, s |-> s, digest |-> None]

\* DigestStage with s.rsplit_once('@') in place of split_once('@')
DigestStage_LastAt(s) ==
    LET at == rsplit_once(s, "@")
    IN  IF IsSome(at)
        THEN LET rest       == Unwrap(at)[1]
                 digest_ref == Unwrap(at)[2]
                 eq         == split_once(digest_ref, "=")
             IN  IF IsSome(eq)
                 THEN LET algo == Unwrap(eq)[1]
                          hash == Unwrap(eq)[2]
                      IN  IF is_empty(algo) \/ is_empty(hash)
                          THEN [ret |-> TRUE,
                                value |-> Err(InvalidDigestFormat(digest_ref))]
                          ELSE [ret |-> FALSE, s |-> rest,
                                digest |-> Some(ImageDigest(algo, hash))]
                 ELSE [ret |-> TRUE,
                       value |-> Err(InvalidDigestFormat(digest_ref))]
        ELSE [ret |-> FALSE, s |-> s, digest |-> None]

\* DigestStage rejecting a digest only when algorithm AND hash are empty
DigestStage_BothEmpty(s) ==
    LET at == split_once(s, "@")
    IN  IF IsSome(at)
        THEN LET rest       == Unwrap(at)[1]
                 digest_ref == Unwrap(at)[2]
                 eq         == split_once(digest_ref, "=")
             IN  IF IsSome(eq)
                 THEN LET algo == Unwrap(eq)[1]
                          hash == Unwrap(eq)[2]
                      IN  IF is_empty(algo) /\ is_empty(hash)
                          THEN [ret |-> TRUE,
                                value |-> Err(InvalidDigestFormat(digest_ref))]
                          ELSE [ret |-> FALSE, s |-> rest,
                                digest |-> Some(ImageDigest(algo, hash))]
                 ELSE [ret |-> TRUE,
                       value |-> Err(InvalidDigestFormat(digest_ref))]
        ELSE [ret |-> FALSE, s |-> s, digest |-> None]

\* "Check for digest (@)": either the early return of an error, or the text
\* before the first '@' together with the optional digest
DigestStage(s) ==
    LET at == split_once(s, "@")
    IN  IF IsSome(at)
        THEN LET rest       == Unwrap(at)[1]
                 digest_ref == Unwrap(at)[2]
                 eq         == split_once(digest_ref, "=")
             IN  IF IsSome(eq)
                 THEN LET algo == Unwrap(eq)[1]
                          hash == Unwrap(eq)[2]
                      IN  IF is_empty(algo) \/ is_empty(hash)
                          THEN [ret |-> TRUE,
                                value |-> Err(InvalidDigestFormat(digest_ref))]
                          ELSE [ret |-> FALSE, s |-> rest,
                                digest |-> Some(ImageDigest(algo, hash))]
                 ELSE [ret |-> TRUE,
                       value |-> Err(InvalidDigestFormat(digest_ref))]
        ELSE [ret |-> FALSE, s |-> s, digest |-> None]

\* TagStage with s.split_once(':') in place of rsplit_once(':')
TagStage_FirstColon(s) ==
    LET colon == split_once(s, ":")
    IN  IF IsSome(colon)
        THEN [s |-> Unwrap(colon)[1], tag |-> Some(Unwrap(colon)[2])]
        ELSE [s |-> s, tag |-> None]

\* TagStage whose tag slice starts at the ':' instead of after it
TagStage_KeepColon(s) ==
    LET colon == rsplit_once(s, ":")
    IN  IF IsSome(colon)
        THEN [s |-> Unwrap(colon)[1],
              tag |-> Some(<<":">> \o Unwrap(colon)[2])]
        ELSE [s |-> s, tag |-> None]

\* "Check for tag (:)": (s, tag)
TagStage(s) ==
    LET colon == rsplit_once(s, ":")
    IN  IF IsSome(colon)
        THEN [s |-> Unwrap(colon)[1], tag |-> Some(Unwrap(colon)[2])]
        ELSE [s |-> s, tag |-> None]

\* NamespaceStage with s.split_once('/') in place of rsplit_once('/')
NamespaceStage_FirstSlash(s) ==
    LET slash == split_once(s, "/")
    IN  IF IsSome(slash)
        THEN [namespace |-> Some(Unwrap(slash)[1]), s |-> Unwrap(slash)[2]]
        ELSE [namespace |-> None, s |-> s]

\* NamespaceStage whose repository slice starts at the '/' instead of after it
NamespaceStage_KeepSlash(s) ==
    LET slash == rsplit_once(s, "/")
    IN  IF IsSome(slash)
        THEN [namespace |-> Some(Unwrap(slash)[1]),
              s |-> <<"/">> \o Unwrap(slash)[2]]
        ELSE [namespace |-> None, s |-> s]

\* "Check for namespace (/)": (namespace, s)
NamespaceStage(s) ==
    LET slash == rsplit_once(s, "/")
    IN  IF IsSome(slash)
        THEN [namespace |-> Some(Unwrap(slash)[1]), s |-> Unwrap(slash)[2]]
        ELSE [namespace |-> None, s |-> s]

\* parse testing the shadowed s of the tag split, not that of the namespace
\* split, for emptiness
parse_CheckBeforeNamespace(s) ==
    LET d == DigestStage(s)
    IN  IF d.ret THEN d.value
        ELSE LET t == TagStage(d.s)
                 n == NamespaceStage(t.s)
             IN  IF is_empty(t.s)
                 THEN Err(MissingRepository)
                 ELSE Ok(ImageSelector(n.namespace, n.s, t.tag, d.digest))

\* parse testing for the repository before it looks at the digest
parse_RepositoryFirst(s) ==
    LET at   == split_once(s, "@")
        rest == IF IsSome(at) THEN Unwrap(at)[1] ELSE s
        t    == TagStage(rest)
        n    == NamespaceStage(t.s)
        d    == DigestStage(s)
    IN  IF is_empty(n.s)
        THEN Err(MissingRepository)
        ELSE IF d.ret THEN d.value
        ELSE Ok(ImageSelector(n.namespace, n.s, t.tag, d.digest))

\* parse keeping only the digest when a tag and a digest are both given
parse_DigestReplacesTag(s) ==
    LET d == DigestStage(s)
    IN  IF d.ret THEN d.value
        ELSE LET t == TagStage(d.s)
                 n == NamespaceStage(t.s)
             IN  IF is_empty(n.s)
                 THEN Err(MissingRepository)
                 ELSE Ok(ImageSelector(n.namespace, n.s,
                                       IF IsSome(d.digest) THEN None ELSE t.tag,
                                       d.digest))

\* parse filling in the tag "latest" when the reference has none
parse_DefaultTag(s) ==
    LET d == DigestStage(s)
    IN  IF d.ret THEN d.value
        ELSE LET t == TagStage(d.s)
                 n == NamespaceStage(t.s)
             IN  IF is_empty(n.s)
                 THEN Err(MissingRepository)
                 ELSE Ok(ImageSelector(n.namespace, n.s,
                                       IF IsSome(t.tag) THEN t.tag
                                       ELSE Some(<<"l", "a", "t", "e", "s", "t">>),
                                       d.digest))

\* parse rejecting an empty tag with an error kind of its own
parse_RejectEmptyTag(s) ==
    LET d == DigestStage(s)
    IN  IF d.ret THEN d.value
        ELSE LET t == TagStage(d.s)
                 n == NamespaceStage(t.s)
             IN  IF IsSome(t.tag) /\ is_empty(Unwrap(t.tag))
                 THEN Err([kind |-> "InvalidTag"])
                 ELSE IF is_empty(n.s)
                 THEN Err(MissingRepository)
                 ELSE Ok(ImageSelector(n.namespace, n.s, t.tag, d.digest))

\* ImageSelector::parse(s)
parse(s) ==
    LET d == DigestStage(s)
    IN  IF d.ret THEN d.value
        ELSE LET t == TagStage(d.s)
                 n == NamespaceStage(t.s)
             IN  IF is_empty(n.s)
                 THEN Err(MissingRepository)
                 ELSE Ok(ImageSelector(n.namespace, n.s, t.tag, d.digest))

\* the reconstruct closure of test_image_selector_component_display:
\* [namespace + "/"] + repository + [":" + tag] + ["@" + algorithm + "=" + hash]
reconstruct(selector) ==
    LET r1 == IF IsSome(selector.namespace)
              THEN Unwrap(selector.namespace) \o <<"/">>
              ELSE << >>
        r2 == r1 \o selector.repository
        r3 == IF IsSome(selector.tag)
              THEN r2 \o <<":">> \o Unwrap(selector.tag)
              ELSE r2
        r4 == IF IsSome(selector.digest)
              THEN r3 \o <<"@">> \o Unwrap(selector.digest).algorithm
                      \o <<"=">> \o Unwrap(selector.digest).hash
              ELSE r3
    IN  r4

\* ------------------------------------------------------------------------
\* ContainerBase, Container and their conversions from a string or a selector
\* ------------------------------------------------------------------------

\* ContainerBase::External(ImageSelector)
External(selector) == [variant |-> "External", selector |-> selector]

\* ContainerBase::Internal(Arc<RwLock<Container>>); an Arc is the identity of
\* the allocation it points to
Internal(arc) == [variant |-> "Internal", arc |-> arc]

\* Container { base }
Container(base) == [base |-> base]

\* Ok(ContainerBase) and Ok(Container)
OkBase(base) == [kind |-> "Ok", base |-> base]

OkContainer(container) == [kind |-> "Ok", container |-> container]

\* <ImageSelector as TryFrom<&str>>::try_from
ImageSelector_try_from(s) == parse(s)

\* what follows ImageSelector::try_from(s) in ContainerBase::try_from:
\* `?` returns the error as it is, Ok(ContainerBase::External(selector))
\* wraps the selector
WrapSelector(selector) ==
    IF IsOk(selector)
    THEN OkBase(External(selector.selector))
    ELSE Err(selector)

\* ContainerBase::try_from with every error turned into MissingRepository
ContainerBase_try_from_OneError(s) ==
    LET selector == ImageSelector_try_from(s)
    IN  IF IsOk(selector)
        THEN OkBase(External(selector.selector))
        ELSE Err(MissingRepository)

\* <ContainerBase as TryFrom<&str>>::try_from:
\* let selector = ImageSelector::try_from(s)?; Ok(External(selector))
ContainerBase_try_from(s) == WrapSelector(ImageSelector_try_from(s))

\* what follows ContainerBase::try_from(s) in Container::from_str:
\* `?` returns the error as it is, Ok(Self { base }) wraps the base
WrapBase(base) ==
    IF IsOk(base)
    THEN OkContainer(Container(base.base))
    ELSE Err(base)

\* <Container as FromStr>::from_str:
\* let base = ContainerBase::try_from(s)?; Ok(Self { base })
Container_from_str(s) == WrapBase(ContainerBase_try_from(s))

\* Display of ImageSelectorParseError, from its #[error("...")] attributes;
\* a fixed piece of text is one element of the sequence
to_string(e) ==
    IF e.kind = "MissingRepository"
    THEN <<"Missing image repository">>
    ELSE <<"Invalid digest format: ">> \o e.text

\* match Self::from_str(image_ref): Ok(container) => container,
\* Err(e) => panic!("Failed to parse image reference '{image_ref}': {e}")
ContainerOrPanic(image_ref, r) ==
    IF IsOk(r)
    THEN [panic |-> FALSE, container |-> r.container]
    ELSE [panic |-> TRUE,
          message |-> <<"Failed to parse image reference '">>
                        \o image_ref \o <<"': ">> \o to_string(r)]

\* From<&str> whose panic message leaves out the offending input
Container_from_image_ref_NoInput(image_ref) ==
    LET r == Container_from_str(image_ref)
    IN  IF IsOk(r)
        THEN [panic |-> FALSE, container |-> r.container]
        ELSE [panic |-> TRUE,
              message |-> <<"Failed to parse image reference: ">>
                            \o to_string(r)]

\* <Container as From<&str>>::from: the container, or the panic
Container_from_image_ref(image_ref) ==
    ContainerOrPanic(image_ref, Container_from_str(image_ref))

\* From<ImageSelector> refusing to build from a selector without repository
Container_from_selector_Validating(selector) ==
    IF is_empty(selector.repository)
    THEN Container(External(ImageSelector(None, <<"?">>, None, None)))
    ELSE Container(External(selector))

\* <Container as From<ImageSelector>>::from
Container_from_selector(selector) == Container(External(selector))

\* ------------------------------------------------------------------------
\* Arc<RwLock<Container>>: the allocations, in the order they were made
\* ------------------------------------------------------------------------

\* Arc::new(RwLock::new(container)): a new allocation with one owner and an
\* unlocked lock, appended to the allocations h
Arc_new(h, container) ==
    Append(h, [alive |-> TRUE, strong |-> 1, readers |-> 0,
               value |-> container])
\* Arc::clone(&arc): one more owner of the allocation
Arc_clone(h, arc) == [h EXCEPT ![arc].strong = @ + 1]

\* drop of an Arc that leaves the Container it owned behind: the allocation
\* is released, the Arc in its Internal base is not
RECURSIVE Arc_drop_NoCascade(_, _)
Arc_drop_NoCascade(h, arc) ==
    IF h[arc].strong > 1
    THEN [h EXCEPT ![arc].strong = @ - 1]
    ELSE [h EXCEPT ![arc].strong = 0, ![arc].alive = FALSE]

\* drop of an Arc: one owner less; the last owner drops the Container, and
\* with it the Arc an Internal base holds
RECURSIVE Arc_drop(_, _)
Arc_drop(h, arc) ==
    IF h[arc].strong > 1
    THEN [h EXCEPT ![arc].strong = @ - 1]
    ELSE LET freed == [h EXCEPT ![arc].strong = 0, ![arc].alive = FALSE]
         IN  IF h[arc].value.base.variant = "Internal"
             THEN Arc_drop(freed, h[arc].value.base.arc)
             ELSE freed

\* RwLock::read: one more read guard on the allocation
RwLock_read(h, arc) == [h EXCEPT ![arc].readers = @ + 1]

\* drop of a read guard
Guard_drop(h, arc) == [h EXCEPT ![arc].readers = @ - 1]

\* From<&Arc<..>> that copies the Container behind the Arc (its derived Clone)
\* instead of sharing the allocation
Container_from_arc_CopiesData(h, arc) ==
    [heap |-> IF h[arc].value.base.variant = "Internal"
              THEN Arc_clone(h, h[arc].value.base.arc)
              ELSE h,
     container |-> Container(h[arc].value.base)]

\* From<&Arc<..>> that wraps what a derived container wraps, not the
\* derived container itself
Container_from_arc_Flattens(h, arc) ==
    IF h[arc].value.base.variant = "Internal"
    THEN [heap |-> Arc_clone(h, h[arc].value.base.arc),
          container |-> Container(Internal(h[arc].value.base.arc))]
    ELSE [heap |-> Arc_clone(h, arc), container |-> Container(Internal(arc))]

\* From<&Arc<..>> that takes the base out of the container given and puts
\* a link to the new container, the next allocation, in its place
Container_from_arc_TakesBase(h, arc) ==
    [heap |-> [h EXCEPT ![arc].value = Container(Internal(Len(h) + 1))],
     container |-> h[arc].value]

\* From<&Arc<..>> whose container links to the allocation about to be made
\* for it, that is to itself
Container_from_arc_WrapsItself(h, arc) ==
    [heap |-> h, container |-> Container(Internal(Len(h) + 1))]

\* From<&Arc<..>> that keeps the address without becoming an owner
Container_from_arc_NotAnOwner(h, arc) ==
    [heap |-> h, container |-> Container(Internal(arc))]

\* From<&Arc<..>> that wraps the allocation made last, not the one given
Container_from_arc_WrapsNewest(h, arc) ==
    [heap |-> Arc_clone(h, Len(h)), container |-> Container(Internal(Len(h)))]

\* <Container as From<&Arc<RwLock<Container>>>>::from:
\* Self { base: ContainerBase::Internal(container.clone()) }
Container_from_arc(h, arc) ==
    [heap |-> Arc_clone(h, arc), container |-> Container(Internal(arc))]


\* ------------------------------------------------------------------------
\* State: one caller that parses a string, rebuilds the reference from a
\* successful result and parses the rebuilt reference again
\* ------------------------------------------------------------------------

VARIABLES
    input,      \* the string handed to ImageSelector::parse
    pc,         \* "start", "parsed", "rebuilt", "reparsed"
    result,     \* Result<ImageSelector, ImageSelectorParseError> of parse(input)
    rebuilt,    \* reconstruct(selector) of a successful result
    reparsed    \* Result of parse(rebuilt)

VARIABLES
    heap,       \* the Arc<RwLock<Container>> allocations made so far
    built,      \* for each allocation, the constructor call that made it
    handles,    \* for each allocation, the Arcs to it the caller holds
    walkers,    \* the lineage walks, one record for each
    panicked    \* Some(message) once a panic! was raised

parser_vars == <<input, pc, result, rebuilt, reparsed>>

heap_vars == <<heap, built, handles, walkers, panicked>>

vars == <<input, pc, result, rebuilt, reparsed,
          heap, built, handles, walkers, panicked>>

Unset == [kind |-> "Unset"]

\* the names of the lineage walks
Walkers == {"w1", "w2"}

\* a walk that has not begun
\* pc: where the walk is; style: "loop" (test_container_deep_nesting) or
\* "nested" (test_container_chaining, test_container_real_world_usage);
\* levels: the Internal links a nested walk expects; start: the handle the
\* walk began with; current, next: the Arcs the walk owns (0: none);
\* cursor: the allocation a nested walk reads next; guards: the read guards
\* held, oldest first; depth: links followed; seen: the bases read, in order;
\* outcome: how the walk ended
IdleWalker ==
    [pc |-> "idle", style |-> "none", levels |-> 0, start |-> 0,
     current |-> 0, next |-> 0, cursor |-> 0, guards |-> << >>, depth |-> 0,
     seen |-> << >>, outcome |-> "none"]

\* nothing allocated yet
HeapInit ==
    /\ heap = << >>
    /\ built = << >>
    /\ handles = << >>
    /\ walkers = [w \in Walkers |-> IdleWalker]
    /\ panicked = None

Init ==
    /\ \E n \in 0..MaxLen : input \in StringsOfLen(n)
    /\ pc = "start"
    /\ result = Unset
    /\ rebuilt = << >>
    /\ reparsed = Unset
    /\ HeapInit

\* let result = ImageSelector::parse(input)
Parse ==
    /\ pc = "start"
    /\ result' = parse(input)
    /\ pc' = "parsed"
    /\ UNCHANGED <<input, rebuilt, reparsed>>
    /\ UNCHANGED heap_vars

\* let rebuilt = reconstruct(&selector), for a selector that was parsed
Reconstruct ==
    /\ pc = "parsed"
    /\ IsOk(result)
    /\ rebuilt' = reconstruct(result.selector)
    /\ pc' = "rebuilt"
    /\ UNCHANGED <<input, result, reparsed>>
    /\ UNCHANGED heap_vars

\* let reparsed = ImageSelector::parse(&rebuilt)
Reparse ==
    /\ pc = "rebuilt"
    /\ reparsed' = parse(rebuilt)
    /\ pc' = "reparsed"
    /\ UNCHANGED <<input, result, rebuilt>>
    /\ UNCHANGED heap_vars

Next == Parse \/ Reconstruct \/ Reparse

Spec == Init /\ [][Next]_vars

\* ------------------------------------------------------------------------
\* One caller that turns a string into a ContainerBase or a Container
\* ------------------------------------------------------------------------

\* what Container::from does with the outcome of image_ref.into(): the
\* panic of From<&str> ends the caller, or Arc::new(RwLock::new(container))
\* is a new allocation and a new handle of the caller
AllocateOrAbort(image_ref, c) ==
    IF c.panic
    THEN /\ panicked' = Some(c.message)
         /\ UNCHANGED <<heap, built, handles, walkers>>
    ELSE /\ heap' = Arc_new(heap, c.container)
         /\ built' = Append(built, [op |-> "image_ref", arg |-> image_ref])
         /\ handles' = Append(handles, 1)
         /\ UNCHANGED <<walkers, panicked>>

\* Container::from(image_ref): Arc::new(RwLock::new(image_ref.into()))
CallFromImageRef(image_ref) ==
    AllocateOrAbort(image_ref, Container_from_image_ref(image_ref))

\* let result = ContainerBase::try_from(input)
TryFromBase ==
    /\ pc = "start"
    /\ result' = ContainerBase_try_from(input)
    /\ pc' = "try_from"
    /\ UNCHANGED <<input, rebuilt, reparsed>>
    /\ UNCHANGED heap_vars

\* let result = input.parse::<Container>()
FromStr ==
    /\ pc = "start"
    /\ result' = Container_from_str(input)
    /\ pc' = "from_str"
    /\ UNCHANGED <<input, rebuilt, reparsed>>
    /\ UNCHANGED heap_vars

\* let container = Container::from(input)
FromImageRef ==
    /\ pc = "start"
    /\ CallFromImageRef(input)
    /\ pc' = "from"
    /\ UNCHANGED <<input, result, rebuilt, reparsed>>

NextConvert == TryFromBase \/ FromStr \/ FromImageRef

SpecConvert == Init /\ [][NextConvert]_vars

\* ------------------------------------------------------------------------
\* The holder of handles: it builds containers, clones and drops handles
\* ------------------------------------------------------------------------

\* most allocations made in one run
MaxNodes == 3

\* most handles to one allocation the caller holds at a time
MaxHandles == 2

\* the strings handed to Container::from: "nginx:latest" and
\* "invalid@digest" in small
RefPool == { <<"a", ":", "a">>, <<"a", "@", "a">> }

\* the selectors handed to Container::from: one built by hand as in
\* test_container_from_custom_selector, with fields no parse returns
SelectorPool ==
    { ImageSelector(None, << >>, Some(<<":">>),
                    Some(ImageDigest(<< >>, << >>))) }

Running == ~IsSome(panicked)

\* the allocations the caller holds a handle to
Held == {id \in 1..Len(heap) : handles[id] > 0}

\* let c = Container::from("...")
HeapFromImageRef ==
    /\ Running
    /\ Len(heap) < MaxNodes
    /\ \E image_ref \in RefPool : CallFromImageRef(image_ref)
    /\ UNCHANGED parser_vars

\* let c = Container::from(selector)
HeapFromSelector ==
    /\ Running
    /\ Len(heap) < MaxNodes
    /\ \E selector \in SelectorPool :
          /\ heap' = Arc_new(heap, Container_from_selector(selector))
          /\ built' = Append(built, [op |-> "selector", arg |-> selector])
    /\ handles' = Append(handles, 1)
    /\ UNCHANGED <<walkers, panicked>>
    /\ UNCHANGED parser_vars

\* let c = Container::from(&existing)
HeapFromArc ==
    /\ Running
    /\ Len(heap) < MaxNodes
    /\ \E arc \in Held :
          LET into == Container_from_arc(heap, arc)
          IN  /\ heap' = Arc_new(into.heap, into.container)
              /\ built' = Append(built, [op |-> "arc", arg |-> arc])
    /\ handles' = Append(handles, 1)
    /\ UNCHANGED <<walkers, panicked>>
    /\ UNCHANGED parser_vars

\* let other = handle.clone()
CloneHandle ==
    /\ Running
    /\ \E arc \in Held :
          /\ handles[arc] < MaxHandles
          /\ heap' = Arc_clone(heap, arc)
          /\ handles' = [handles EXCEPT ![arc] = @ + 1]
    /\ UNCHANGED <<built, walkers, panicked>>
    /\ UNCHANGED parser_vars

\* drop(handle), or the handle going out of scope
DropHandle ==
    /\ Running
    /\ \E arc \in Held :
          /\ heap' = Arc_drop(heap, arc)
          /\ handles' = [handles EXCEPT ![arc] = @ - 1]
    /\ UNCHANGED <<built, walkers, panicked>>
    /\ UNCHANGED parser_vars

\* no string is being parsed on its own while containers are built
InitHeap ==
    /\ input = << >>
    /\ pc = "heap"
    /\ result = Unset
    /\ rebuilt = << >>
    /\ reparsed = Unset
    /\ HeapInit

NextHolder ==
    \/ HeapFromImageRef
    \/ HeapFromSelector
    \/ HeapFromArc
    \/ CloneHandle
    \/ DropHandle

SpecHolder == InitHeap /\ [][NextHolder]_vars

\* ------------------------------------------------------------------------
\* Lineage walks: the loop of test_container_deep_nesting and the nested
\* matches of test_container_chaining and test_container_real_world_usage
\* ------------------------------------------------------------------------

\* Internal links test_container_chaining matches before the External base
ChainingLevels == 2

\* Internal links test_container_real_world_usage matches before it
RealWorldLevels == 3

\* "if depth > 10 { panic!(..) }"
DepthLimit == 10

Last(s) == s[Len(s)]

Front(s) == SubSeq(s, 1, Len(s) - 1)

\* the walk takes a handle of the caller: `let mut current = with_config;`,
\* or the handle whose read() opens the nested matches
StartWalk(w, shapes) ==
    /\ Running
    /\ walkers[w].pc = "idle"
    /\ \E arc \in Held :
       \E shape \in shapes :
          /\ handles' = [handles EXCEPT ![arc] = @ - 1]
          /\ walkers' = [walkers EXCEPT ![w] =
                 [@ EXCEPT !.pc = IF shape.style = "loop"
                                  THEN "read" ELSE "n_read",
                           !.style = shape.style, !.levels = shape.levels,
                           !.start = arc, !.current = arc, !.cursor = arc]]
    /\ UNCHANGED <<heap, built, panicked>>
    /\ UNCHANGED parser_vars

\* read() of a lock that admits one guard at a time: it waits while another
\* guard of the lock is held
LoopRead_Exclusive(w) ==
    /\ Running
    /\ walkers[w].pc = "read"
    /\ heap[walkers[w].current].readers = 0
    /\ heap' = RwLock_read(heap, walkers[w].current)
    /\ walkers' = [walkers EXCEPT ![w].pc = "match",
                                  ![w].guards = Append(@, walkers[w].current)]
    /\ UNCHANGED <<built, handles, panicked>>
    /\ UNCHANGED parser_vars

\* the loop of test_container_deep_nesting
LoopShape == [style |-> "loop", levels |-> 0]

\* the nested matches of test_container_chaining
ChainingShape == [style |-> "nested", levels |-> ChainingLevels]

\* the nested matches of test_container_real_world_usage
RealWorldShape == [style |-> "nested", levels |-> RealWorldLevels]

\* a thread starts any of the three walks
WalkStart(w) == StartWalk(w, {LoopShape, ChainingShape, RealWorldShape})

\* let guard = current.read().unwrap();
LoopRead(w) ==
    /\ Running
    /\ walkers[w].pc = "read"
    /\ heap' = RwLock_read(heap, walkers[w].current)
    /\ walkers' = [walkers EXCEPT ![w].pc = "match",
                                  ![w].guards = Append(@, walkers[w].current)]
    /\ UNCHANGED <<built, handles, panicked>>
    /\ UNCHANGED parser_vars

\* match &guard.base: Internal(arc) => let next_container = arc.clone();
\*                    External(selector) => the base container is reached
LoopMatch(w) ==
    /\ Running
    /\ walkers[w].pc = "match"
    /\ LET base == heap[walkers[w].current].value.base
           look == Append(walkers[w].seen,
                          [node |-> walkers[w].current, base |-> base])
       IN  IF base.variant = "Internal"
           THEN /\ heap' = Arc_clone(heap, base.arc)
                /\ walkers' = [walkers EXCEPT ![w].pc = "drop_guard",
                                              ![w].next = base.arc,
                                              ![w].seen = look]
           ELSE /\ heap' = heap
                /\ walkers' = [walkers EXCEPT ![w].pc = "break",
                                              ![w].seen = look]
    /\ UNCHANGED <<built, handles, panicked>>
    /\ UNCHANGED parser_vars

\* the loop without drop(guard): the guard stays while the walk moves on
LoopDropGuard_KeepsGuard(w) ==
    /\ Running
    /\ walkers[w].pc = "drop_guard"
    /\ walkers' = [walkers EXCEPT ![w].pc = "advance"]
    /\ UNCHANGED <<heap, built, handles, panicked>>
    /\ UNCHANGED parser_vars

\* drop(guard);
LoopDropGuard(w) ==
    /\ Running
    /\ walkers[w].pc = "drop_guard"
    /\ heap' = Guard_drop(heap, walkers[w].current)
    /\ walkers' = [walkers EXCEPT ![w].pc = "advance",
                                  ![w].guards = Front(@)]
    /\ UNCHANGED <<built, handles, panicked>>
    /\ UNCHANGED parser_vars

\* current = next_container; depth += 1; if depth > 10 { panic!(..) }
\* the assignment drops the Arc current held; after the panic the walk is
\* over and what it still owns is dropped as at its end
LoopAdvance(w) ==
    /\ Running
    /\ walkers[w].pc = "advance"
    /\ LET moved == Arc_drop(heap, walkers[w].current)
       IN  IF walkers[w].depth + 1 > DepthLimit
           THEN /\ heap' = moved
                /\ walkers' = [walkers EXCEPT ![w].pc = "end",
                                              ![w].current = walkers[w].next,
                                              ![w].next = 0,
                                              ![w].depth = @ + 1,
                                              ![w].outcome = "panic"]
           ELSE /\ heap' = moved
                /\ walkers' = [walkers EXCEPT ![w].pc = "read",
                                              ![w].current = walkers[w].next,
                                              ![w].next = 0,
                                              ![w].depth = @ + 1]
    /\ UNCHANGED <<built, handles, panicked>>
    /\ UNCHANGED parser_vars

\* break; the guard of the last iteration goes out of scope
LoopBreak(w) ==
    /\ Running
    /\ walkers[w].pc = "break"
    /\ heap' = Guard_drop(heap, walkers[w].current)
    /\ walkers' = [walkers EXCEPT ![w].pc = "end", ![w].guards = Front(@),
                                  ![w].outcome = "leaf"]
    /\ UNCHANGED <<built, handles, panicked>>
    /\ UNCHANGED parser_vars

\* let guard = arc.read().unwrap(); inside the guards taken so far
NestedRead(w) ==
    /\ Running
    /\ walkers[w].pc = "n_read"
    /\ heap' = RwLock_read(heap, walkers[w].cursor)
    /\ walkers' = [walkers EXCEPT ![w].pc = "n_match",
                                  ![w].guards = Append(@, walkers[w].cursor)]
    /\ UNCHANGED <<built, handles, panicked>>
    /\ UNCHANGED parser_vars

\* matches!(guard.base, Internal(ref arc) if ..) on the levels above the
\* last, matches!(guard.base, External(ref s) if ..) on the last
NestedMatch(w) ==
    /\ Running
    /\ walkers[w].pc = "n_match"
    /\ LET base == heap[walkers[w].cursor].value.base
           look == Append(walkers[w].seen,
                          [node |-> walkers[w].cursor, base |-> base])
       IN  IF walkers[w].depth < walkers[w].levels /\ base.variant = "Internal"
           THEN walkers' = [walkers EXCEPT ![w].pc = "n_read",
                                           ![w].cursor = base.arc,
                                           ![w].depth = @ + 1,
                                           ![w].seen = look]
           ELSE walkers' = [walkers EXCEPT
                   ![w].pc = "n_unwind",
                   ![w].seen = look,
                   ![w].outcome =
                       IF walkers[w].depth = walkers[w].levels
                          /\ base.variant = "External"
                       THEN "leaf" ELSE "mismatch"]
    /\ UNCHANGED <<heap, built, handles, panicked>>
    /\ UNCHANGED parser_vars

\* the guards go out of scope, the innermost first
NestedUnwind(w) ==
    /\ Running
    /\ walkers[w].pc = "n_unwind"
    /\ IF walkers[w].guards # << >>
       THEN /\ heap' = Guard_drop(heap, Last(walkers[w].guards))
            /\ walkers' = [walkers EXCEPT ![w].guards = Front(@)]
       ELSE /\ heap' = heap
            /\ walkers' = [walkers EXCEPT ![w].pc = "end"]
    /\ UNCHANGED <<built, handles, panicked>>
    /\ UNCHANGED parser_vars

\* the test function returns: the handle the walk owns goes out of scope,
\* and the thread is free to run another walk
WalkEnd(w) ==
    /\ Running
    /\ walkers[w].pc = "end"
    /\ heap' = Arc_drop(heap, walkers[w].current)
    /\ walkers' = [walkers EXCEPT ![w] = IdleWalker]
    /\ UNCHANGED <<built, handles, panicked>>
    /\ UNCHANGED parser_vars

NextWalk ==
    \E w \in Walkers :
        \/ WalkStart(w)
        \/ LoopRead(w)
        \/ LoopMatch(w)
        \/ LoopDropGuard(w)
        \/ LoopAdvance(w)
        \/ LoopBreak(w)
        \/ NestedRead(w)
        \/ NestedMatch(w)
        \/ NestedUnwind(w)
        \/ WalkEnd(w)

\* the caller builds containers and lets go of their handles
NextBuilder ==
    \/ HeapFromImageRef
    \/ HeapFromSelector
    \/ HeapFromArc
    \/ DropHandle

\* the caller builds containers and lets go of handles while walks run
NextHeap == NextBuilder \/ NextWalk

SpecHeap == InitHeap /\ [][NextHeap]_vars
\* one step of the walk of w, once it has started
WalkStep(w) ==
    \/ LoopRead(w)
    \/ LoopMatch(w)
    \/ LoopDropGuard(w)
    \/ LoopAdvance(w)
    \/ LoopBreak(w)
    \/ NestedRead(w)
    \/ NestedMatch(w)
    \/ NestedUnwind(w)
    \/ WalkEnd(w)

\* one thread walks a lineage while the caller builds containers and lets
\* go of their handles
NextLineage ==
    \/ NextBuilder
    \/ WalkStart("w1")
    \/ WalkStep("w1")

\* a thread that can take its next step takes it in the end: read() waits
\* for writers only, and there is none
SpecLineage ==
    InitHeap /\ [][NextLineage]_vars /\ WF_vars(WalkStep("w1"))
\* the caller builds chains of containers from image references while
\* threads walk them, by the loop or by the nested matches of
\* test_container_chaining
NextReaders ==
    \/ HeapFromImageRef
    \/ HeapFromArc
    \/ \E w \in Walkers :
          \/ StartWalk(w, {LoopShape, ChainingShape})
          \/ WalkStep(w)

\* each thread that can take its next step takes it in the end
SpecReaders ==
    InitHeap /\ [][NextReaders]_vars /\ \A w \in Walkers : WF_vars(WalkStep(w))



\* ------------------------------------------------------------------------
\* Assignment to the public field `base` under the write lock of a handle:
\* handle.write().unwrap().base = ...
\* ------------------------------------------------------------------------

\* the values a caller can give the field: an External base with a selector
\* it has, or an Internal base with a clone of a handle it holds
BasePool ==
    {External(selector) : selector \in SelectorPool}
        \cup {Internal(arc) : arc \in Held}

\* write() returns once no guard of the lock is held; the new value is
\* built first (the clone of the handle), the assignment stores it and
\* drops the value the field had, and the write guard is released
WriteBase(target, base) ==
    /\ heap[target].readers = 0
    /\ LET cloned == IF base.variant = "Internal"
                     THEN Arc_clone(heap, base.arc) ELSE heap
           old == heap[target].value.base
           stored == [cloned EXCEPT ![target].value = Container(base)]
       IN  heap' = IF old.variant = "Internal"
                   THEN Arc_drop(stored, old.arc) ELSE stored
    /\ UNCHANGED <<built, handles, walkers, panicked>>
    /\ UNCHANGED parser_vars

\* most containers whose base differs from the one they were built with
MaxWritten == 1

\* the base the call that built the node gave it
ConstructedBase(id) ==
    CASE built[id].op = "image_ref" ->
             External(parse(built[id].arg).selector)
      [] built[id].op = "selector" -> External(built[id].arg)
      [] built[id].op = "arc" -> Internal(built[id].arg)

\* the containers whose base differs from the one they were built with
Written == {id \in 1..Len(heap) : heap[id].value.base # ConstructedBase(id)}

\* a caller assigns to the base of a container it holds a handle to
Write ==
    /\ Running
    /\ \E target \in Held :
          /\ Cardinality(Written \cup {target}) <= MaxWritten
          /\ \E base \in BasePool : WriteBase(target, base)

\* the caller builds containers, lets go of their handles and assigns to
\* bases
NextWrite ==
    \/ NextBuilder
    \/ Write

SpecWrite == InitHeap /\ [][NextWrite]_vars

\* ------------------------------------------------------------------------
\* Vocabulary of the properties: positions of delimiters, stated by
\* quantification over the positions of the string
\* ------------------------------------------------------------------------

HasChar(s, c) == \E i \in 1..Len(s) : s[i] = c

FirstPos(s, c) ==
    CHOOSE i \in 1..Len(s) : s[i] = c /\ \A j \in 1..(i - 1) : s[j] # c

LastPos(s, c) ==
    CHOOSE i \in 1..Len(s) : s[i] = c /\ \A j \in (i + 1)..Len(s) : s[j] # c

Before(s, i) == [k \in 1..(i - 1) |-> s[k]]

After(s, i) == [k \in 1..(Len(s) - i) |-> s[i + k]]

\* the text before the first '@', the whole text if there is no '@'
BeforeAt(s) == IF HasChar(s, "@") THEN Before(s, FirstPos(s, "@")) ELSE s

\* the text after the first '@' of a text that has one
AfterAt(s) == After(s, FirstPos(s, "@"))

\* a well-formed algorithm=hash digest
WellFormedDigest(d) ==
    /\ HasChar(d, "=")
    /\ Before(d, FirstPos(d, "=")) # << >>
    /\ After(d, FirstPos(d, "=")) # << >>

\* BeforeAt(s) without its last ':' and what follows it
BeforeTag(s) ==
    LET r == BeforeAt(s)
    IN  IF HasChar(r, ":") THEN Before(r, LastPos(r, ":")) ELSE r

\* what follows the last '/' of BeforeTag(s)
RepoCandidate(s) ==
    LET r == BeforeTag(s)
    IN  IF HasChar(r, "/") THEN After(r, LastPos(r, "/")) ELSE r

Parsed == pc # "start"

\* C1: whenever the input contains '@' and the text after the first '@' has
\* no '=', or nothing before its first '=', or nothing after it, parse fails
\* with InvalidDigestFormat carrying exactly the whole text after the first
\* '@', whatever precedes the '@'.
C1_InvalidDigestCarriesDigestRef ==
    (Parsed /\ HasChar(input, "@") /\ ~WellFormedDigest(AfterAt(input)))
        => result = InvalidDigestFormat(AfterAt(input))

\* the empty-hash case, with a tag, a namespace and an empty repository
\* before the '@'
C1_Witness ==
    /\ pc = "parsed"
    /\ HasChar(input, "@")
    /\ HasChar(AfterAt(input), "=")
    /\ After(AfterAt(input), FirstPos(AfterAt(input), "=")) = << >>
    /\ Before(AfterAt(input), FirstPos(AfterAt(input), "=")) # << >>
    /\ HasChar(BeforeAt(input), ":")
    /\ HasChar(BeforeAt(input), "/")
    /\ RepoCandidate(input) = << >>
    /\ result = InvalidDigestFormat(AfterAt(input))

\* the inputs the documentation of MissingRepository and the tests list:
\* "", "namespace/", "namespace///", ":tag", ":", "/", "@sha256=hash"
MissingRepositoryExamples ==
    { << >>,
      <<"a", "/">>,
      <<"a", "/", "/", "/">>,
      <<":", "a">>,
      <<":">>,
      <<"/">>,
      <<"@", "a", "=", "a">> }

\* C2: parse fails with MissingRepository exactly when the input has no '@'
\* or a well-formed digest after its first '@', and the repository candidate
\* (text before the first '@', cut at its last ':', then what follows the
\* last '/') is empty; the listed examples all yield MissingRepository.
C2_MissingRepositoryExactly ==
    Parsed =>
        /\ (result = MissingRepository)
             <=> /\ (~HasChar(input, "@") \/ WellFormedDigest(AfterAt(input)))
                 /\ RepoCandidate(input) = << >>
        /\ (\E e \in MissingRepositoryExamples : input = e)
             => result = MissingRepository

\* "namespace///": the repository is missing behind a namespace that itself
\* ends in separators
C2_Witness ==
    /\ pc = "parsed"
    /\ input = <<"a", "/", "/", "/">>
    /\ result = MissingRepository

\* C3: an input with '@', a non-empty algorithm before the first '=' that
\* follows the first '@', a non-empty rest after it and a non-empty
\* repository candidate parses successfully with that algorithm and with ALL
\* the text after that '=' as hash; a successful parse of an input without
\* '@' has digest = None.
C3_DigestSplitAtFirstAtAndFirstEq ==
    /\ (Parsed /\ HasChar(input, "@") /\ WellFormedDigest(AfterAt(input))
               /\ RepoCandidate(input) # << >>)
         => /\ IsOk(result)
            /\ result.selector.digest =
                 Some([algorithm |-> Before(AfterAt(input),
                                            FirstPos(AfterAt(input), "=")),
                       hash |-> After(AfterAt(input),
                                      FirstPos(AfterAt(input), "="))])
    /\ (Parsed /\ ~HasChar(input, "@") /\ IsOk(result))
         => result.selector.digest = None

\* a hash that itself holds a later '=' and a later '@'
C3_Witness ==
    /\ pc = "parsed"
    /\ IsOk(result)
    /\ IsSome(result.selector.digest)
    /\ HasChar(Unwrap(result.selector.digest).hash, "=")
    /\ HasChar(Unwrap(result.selector.digest).hash, "@")

\* [namespace + "/"] + repository of a selector
PathText(selector) ==
    IF IsSome(selector.namespace)
    THEN Unwrap(selector.namespace) \o <<"/">> \o selector.repository
    ELSE selector.repository

\* C4: in a successful parse the tag is everything after the LAST ':' of the
\* text before the first '@', verbatim (the empty tag included); all earlier
\* ':' stay in the namespace/repository text ("a:b:c" has tag "c" and
\* repository "a:b"); without a ':' there is no tag.
C4_TagAtLastColon ==
    (Parsed /\ IsOk(result)) =>
        LET r == BeforeAt(input)
        IN  /\ IF HasChar(r, ":")
               THEN /\ result.selector.tag = Some(After(r, LastPos(r, ":")))
                    /\ PathText(result.selector) = Before(r, LastPos(r, ":"))
               ELSE /\ result.selector.tag = None
                    /\ PathText(result.selector) = r
            /\ input = <<"a", ":", "a", ":", "a">>
                 => /\ result.selector.tag = Some(<<"a">>)
                    /\ result.selector.repository = <<"a", ":", "a">>

\* an accepted empty tag behind a repository that keeps an earlier ':'
C4_Witness ==
    /\ pc = "parsed"
    /\ IsOk(result)
    /\ result.selector.tag = Some(<< >>)
    /\ HasChar(result.selector.repository, ":")

\* C5: in a successful parse the text left after removing digest and tag is
\* split at its LAST '/': namespace = Some(all before it, embedded '/' and
\* the empty string included), repository = all after it; without a '/'
\* namespace = None and repository = the whole remaining text.
C5_NamespaceAtLastSlash ==
    (Parsed /\ IsOk(result)) =>
        LET r == BeforeTag(input)
        IN  IF HasChar(r, "/")
            THEN /\ result.selector.namespace = Some(Before(r, LastPos(r, "/")))
                 /\ result.selector.repository = After(r, LastPos(r, "/"))
            ELSE /\ result.selector.namespace = None
                 /\ result.selector.repository = r

\* a namespace of several path segments, with a tag behind the repository
C5_Witness ==
    /\ pc = "parsed"
    /\ IsOk(result)
    /\ IsSome(result.selector.namespace)
    /\ HasChar(Unwrap(result.selector.namespace), "/")
    /\ Unwrap(result.selector.namespace)[1] = "a"
    /\ IsSome(result.selector.tag)

\* C6: for every string on which parse succeeds, the reference rebuilt from
\* the result as [namespace + "/"] + repository + [":" + tag]
\* + ["@" + algorithm + "=" + hash] equals the string, character for
\* character.
C6_ReconstructGivesInput ==
    (pc \in {"rebuilt", "reparsed"}) =>
        /\ Len(rebuilt) = Len(input)
        /\ \A i \in 1..Len(input) : rebuilt[i] = input[i]

\* a rebuilt reference with all three optional parts
C6_Witness ==
    /\ pc = "rebuilt"
    /\ IsSome(result.selector.namespace)
    /\ IsSome(result.selector.tag)
    /\ IsSome(result.selector.digest)
    /\ HasChar(rebuilt, "a")

\* C7: parsing the rebuilt reference succeeds and gives a result equal to the
\* first one in all four fields; a tag and a digest that were both present
\* are both still present and equal.
C7_RoundTrip ==
    (pc = "reparsed") =>
        /\ IsOk(reparsed)
        /\ reparsed.selector.namespace = result.selector.namespace
        /\ reparsed.selector.repository = result.selector.repository
        /\ reparsed.selector.tag = result.selector.tag
        /\ reparsed.selector.digest = result.selector.digest
        /\ (IsSome(result.selector.tag) /\ IsSome(result.selector.digest))
             => /\ IsSome(reparsed.selector.tag)
                /\ IsSome(reparsed.selector.digest)

\* a round trip of a result with a non-empty tag and a digest
C7_Witness ==
    /\ pc = "reparsed"
    /\ IsSome(result.selector.tag)
    /\ Unwrap(result.selector.tag) # << >>
    /\ IsSome(result.selector.digest)
    /\ IsOk(reparsed)

C9_PlainRepository ==
    (Parsed /\ input # << >> /\ ~HasChar(input, "@")
            /\ ~HasChar(input, ":") /\ ~HasChar(input, "/")) =>
        /\ IsOk(result)
        /\ result.selector.namespace = None
        /\ result.selector.tag = None
        /\ result.selector.digest = None
        /\ result.selector.repository = input

\* a plain string that holds the one delimiter it may hold, '='
C9_Witness ==
    /\ pc = "parsed"
    /\ input = <<"a", "=", "a">>
    /\ result = Ok(ImageSelector(None, <<"a", "=", "a">>, None, None))

IsString(x) ==
    /\ DOMAIN x = 1..Len(x)
    /\ \A i \in 1..Len(x) : x[i] \in Alphabet

IsOptionOfString(o) ==
    /\ Len(o) \in {0, 1}
    /\ IsSome(o) => IsString(Unwrap(o))

IsOptionOfDigest(o) ==
    /\ Len(o) \in {0, 1}
    /\ IsSome(o) => /\ DOMAIN Unwrap(o) = {"algorithm", "hash"}
                    /\ IsString(Unwrap(o).algorithm)
                    /\ IsString(Unwrap(o).hash)

\* one of the three outcomes of parse: a complete selector, MissingRepository
\* or InvalidDigestFormat(text)
IsOutcome(r) ==
    \/ /\ r.kind = "Ok"
       /\ DOMAIN r = {"kind", "selector"}
       /\ DOMAIN r.selector = {"namespace", "repository", "tag", "digest"}
       /\ IsOptionOfString(r.selector.namespace)
       /\ IsString(r.selector.repository)
       /\ IsOptionOfString(r.selector.tag)
       /\ IsOptionOfDigest(r.selector.digest)
    \/ /\ r.kind = "MissingRepository"
       /\ DOMAIN r = {"kind"}
    \/ /\ r.kind = "InvalidDigestFormat"
       /\ DOMAIN r = {"kind", "text"}
       /\ IsString(r.text)

SelectorInvariant(sel) ==
    /\ Len(sel.repository) > 0
    /\ \A i \in 1..Len(sel.digest) :
           /\ Len(sel.digest[i].algorithm) > 0
           /\ Len(sel.digest[i].hash) > 0

\* C11: every ImageSelector returned by a successful parse has a non-empty
\* repository, and a digest, when present, has a non-empty algorithm and a
\* non-empty hash.
C11_ParsedSelectorInvariant ==
    /\ (pc \in {"parsed", "rebuilt", "reparsed"} /\ result.kind = "Ok")
         => SelectorInvariant(result.selector)
    /\ (pc = "reparsed" /\ reparsed.kind = "Ok")
         => SelectorInvariant(reparsed.selector)

\* a parsed selector whose digest is as short as it can be, with an empty
\* namespace and an empty tag around a one-character repository
C11_Witness ==
    /\ pc = "parsed"
    /\ result.kind = "Ok"
    /\ result.selector.namespace = Some(<< >>)
    /\ result.selector.tag = Some(<< >>)
    /\ Len(result.selector.repository) = 1
    /\ IsSome(result.selector.digest)
    /\ Len(Unwrap(result.selector.digest).algorithm) = 1
    /\ Len(Unwrap(result.selector.digest).hash) = 1

\* C12: ContainerBase::try_from and Container::from_str fail exactly when
\* ImageSelector::parse fails on the same string, with the identical error
\* value, and otherwise give External(selector) (wrapped in a Container by
\* from_str) for exactly the selector parse returns.
C12_FallibleConversionFollowsParse ==
    (pc \in {"try_from", "from_str"}) =>
        LET parsed == parse(input)
            base   == [variant |-> "External", selector |-> parsed.selector]
        IN  IF parsed.kind = "Ok"
            THEN /\ pc = "try_from" => result = [kind |-> "Ok", base |-> base]
                 /\ pc = "from_str"
                      => result = [kind |-> "Ok",
                                   container |-> [base |-> base]]
            ELSE /\ result = parsed
                 /\ result.kind \in {"MissingRepository",
                                     "InvalidDigestFormat"}
                 /\ result.kind = "InvalidDigestFormat"
                      => result.text = AfterAt(input)

\* "ubuntu@invalid" in small: from_str hands back InvalidDigestFormat with
\* the text that followed the '@'
C12_Witness ==
    /\ pc = "from_str"
    /\ input = <<"a", "@", "a", "a">>
    /\ result = InvalidDigestFormat(<<"a", "a">>)

\* the description of an error e returned for the string s, written out
ErrorDescription(e, s) ==
    IF e.kind = "MissingRepository"
    THEN <<"Missing image repository">>
    ELSE <<"Invalid digest format: ">> \o AfterAt(s)

\* C13: Container::from(&str) panics exactly when parsing the string fails,
\* with the message "Failed to parse image reference '<input>': <error
\* description>"; otherwise it returns a handle to a new container whose base
\* is External with the parsed selector.
C13_FromImageRefPanicsExactlyOnParseError ==
    (pc = "from") =>
        LET parsed == parse(input)
        IN  /\ IsSome(panicked) <=> parsed.kind # "Ok"
            /\ IsSome(panicked) =>
                 /\ Unwrap(panicked)
                      = <<"Failed to parse image reference '">>
                          \o input \o <<"': ">>
                          \o ErrorDescription(parsed, input)
                 /\ heap = << >>
                 /\ handles = << >>
            /\ ~IsSome(panicked) =>
                 /\ Len(heap) = 1
                 /\ heap[1].alive
                 /\ heap[1].strong = 1
                 /\ handles = <<1>>
                 /\ heap[1].value.base.variant = "External"
                 /\ heap[1].value.base.selector = parsed.selector

\* "invalid@digest" in small: the panic names the input and the error
C13_Witness ==
    /\ pc = "from"
    /\ panicked = Some(<<"Failed to parse image reference '", "a", "@", "a",
                         "': ", "Invalid digest format: ", "a">>)

\* ------------------------------------------------------------------------
\* Containers on the heap
\* ------------------------------------------------------------------------

\* the allocations made so far
Nodes == 1..Len(heap)

\* the two selectors agree field by field
SameSelector(s, t) ==
    /\ s.namespace = t.namespace
    /\ s.repository = t.repository
    /\ s.tag = t.tag
    /\ s.digest = t.digest

\* C14: Container::from(selector) never fails and validates nothing: every
\* container built from a selector, hand-built ones included, has an
\* External base whose selector equals the given one in namespace,
\* repository, tag and digest, and the only calls that abort are the ones
\* given an image reference text.
C14_FromSelectorWrapsUnvalidated ==
    /\ \A id \in Nodes :
          built[id].op = "selector" =>
              /\ heap[id].value.base.variant = "External"
              /\ SameSelector(heap[id].value.base.selector, built[id].arg)
    /\ IsSome(panicked) =>
          \E image_ref \in RefPool : ~IsOk(parse(image_ref))

\* a container was built from a hand-built selector with an empty repository
C14_Witness ==
    \E id \in Nodes :
        /\ built[id].op = "selector"
        /\ built[id].arg.repository = << >>
        /\ heap[id].value.base.variant = "External"

\* the step builds a container from a reference to an existing handle
WrapsExisting ==
    /\ Len(heap') = Len(heap) + 1
    /\ built'[Len(heap')].op = "arc"

\* C15: Container::from(&existing) makes a new node whose base is Internal
\* and refers to the very allocation `existing` refers to, not to a copy of
\* its data; the call adds exactly one owner to that allocation and changes
\* nothing else of it or of any other allocation; and reading through the
\* new node's link shows the base that reading `existing` shows.
C15_FromExistingSharesTheNode ==
    [][WrapsExisting =>
        LET new == Len(heap')
            existing == built'[new].arg
        IN  /\ existing \in Nodes
            /\ handles[existing] > 0
            /\ heap'[new].value.base.variant = "Internal"
            /\ heap'[new].value.base.arc = existing
            /\ heap'[new].strong = 1
            /\ heap'[existing].strong = heap[existing].strong + 1
            /\ heap'[existing].alive /\ heap[existing].alive
            /\ heap'[existing].value = heap[existing].value
            /\ \A id \in Nodes \ {existing} : heap'[id] = heap[id]
            /\ heap'[heap'[new].value.base.arc].value.base
                   = heap[existing].value.base
    ]_vars

\* a container built from a reference to a handle is there, linked to the
\* allocation that handle refers to, which the caller still holds as well
C15_Witness ==
    \E id \in Nodes :
        /\ built[id].op = "arc"
        /\ heap[id].alive
        /\ heap[id].value.base = Internal(built[id].arg)
        /\ handles[built[id].arg] > 0
        /\ heap[built[id].arg].strong >= 2

\* the wrapping operations behind a node, by the calls that built it
RECURSIVE Wraps(_)
Wraps(id) ==
    IF built[id].op = "arc" THEN 1 + Wraps(built[id].arg) ELSE 0

\* the node the chain of wrapping operations began with
RECURSIVE Origin(_)
Origin(id) ==
    IF built[id].op = "arc" THEN Origin(built[id].arg) ELSE id

\* the node was built from an image reference and wrapped since, each
\* wrapping operation wrapping the node made before it
FromImageReference(id) == built[Origin(id)].op = "image_ref"

\* the walks under way
Walking == {w \in Walkers : walkers[w].pc # "idle"}

\* the walk has run to its end
Ended(w) == walkers[w].pc = "end"

\* what holds of a walk over a chain of n wrapping operations: it has taken
\* at most n hops, it has not met the depth limit, what it has read is
\* Internal on the first n nodes and External, with the selector parsed
\* from the image reference, on the one after them, and at its end it has
\* taken n hops and read the leaf (the nested matches written for another
\* number of levels report a mismatch instead)
LineageOf(w) ==
    LET walk == walkers[w]
        n == Wraps(walk.start)
        leaf == parse(built[Origin(walk.start)].arg).selector
    IN  /\ walk.depth <= n
        /\ walk.outcome # "panic"
        /\ Len(walk.seen) <= n + 1
        /\ \A i \in 1..Len(walk.seen) :
              IF i = n + 1
              THEN /\ walk.seen[i].base.variant = "External"
                   /\ SameSelector(walk.seen[i].base.selector, leaf)
              ELSE walk.seen[i].base.variant = "Internal"
        /\ Ended(w) /\ walk.style = "loop" =>
              /\ walk.outcome = "leaf"
              /\ walk.depth = n
              /\ Len(walk.seen) = n + 1
        /\ Ended(w) /\ walk.style = "nested" =>
              /\ walk.outcome = "leaf" <=> walk.levels = n
              /\ walk.outcome = "leaf" =>
                    walk.depth = n /\ Len(walk.seen) = n + 1

\* C16 (what a traversal finds): over a chain built from an image reference
\* by n successive wrapping operations, a traversal from the outermost node
\* along Internal links reaches exactly one External leaf, the selector
\* parsed from the image reference, after exactly n hops.
C16_LineageInvariant ==
    \A w \in Walking :
        FromImageReference(walkers[w].start) => LineageOf(w)

\* C16: a traversal over a chain built from an image reference by n
\* successive wrapping operations terminates, reaches exactly one External
\* leaf (the originally parsed selector), and takes exactly n hops; only the
\* abort of the whole program by a failed Container::from(text) stops a
\* traversal short of its end.
C16_LineageTerminatesAtTheLeaf ==
    /\ []C16_LineageInvariant
    /\ \A w \in Walkers :
          (w \in Walking /\ FromImageReference(walkers[w].start))
              ~> (Ended(w) \/ ~Running)

\* the loop has walked a chain of two wrapping operations to its leaf
C16_Witness ==
    \E w \in Walkers :
        /\ Ended(w)
        /\ walkers[w].style = "loop"
        /\ FromImageReference(walkers[w].start)
        /\ Wraps(walkers[w].start) = 2
        /\ walkers[w].depth = 2
        /\ walkers[w].outcome = "leaf"

Rebased == {id \in Nodes : heap'[id].value.base # heap[id].value.base}

WrapSameNode(a, b) ==
    /\ a # b
    /\ built[a].op = "arc"
    /\ built[b].op = "arc"
    /\ built[a].arg = built[b].arg

\* what the walk has read behind the container it began with
ReadBehind(w) == SubSeq(walkers[w].seen, 2, Len(walkers[w].seen))

\* one of the two sequences begins with the other
Agree(s, t) ==
    \A i \in 1..Len(s) : i <= Len(t) => s[i] = t[i]

\* C18: when two containers built apart both wrap the same node, threads
\* that read that node through the one and through the other, in any
\* interleaving, read the same node and see the same payload in it: the
\* same variant with the same selector or the same link, and the same again
\* at every node behind it.
C18_SharedNodeReadsAgree ==
    \A v \in Walking : \A w \in Walking :
        WrapSameNode(walkers[v].start, walkers[w].start) =>
            /\ Agree(ReadBehind(v), ReadBehind(w))
            /\ \A u \in {v, w} :
                  /\ Len(walkers[u].seen) >= 1 =>
                        walkers[u].seen[1].base
                            = Internal(built[walkers[u].start].arg)
                  /\ Len(walkers[u].seen) >= 2 =>
                        walkers[u].seen[2].node = built[walkers[u].start].arg

\* two threads, come through two containers that wrap the same node, hold
\* the read lock of that node at the same time and have both read its base
C18_Witness ==
    \E v \in Walking : \E w \in Walking :
        /\ WrapSameNode(walkers[v].start, walkers[w].start)
        /\ Len(walkers[v].seen) = 2
        /\ Len(walkers[w].seen) = 2
        /\ walkers[v].guards # << >>
        /\ walkers[w].guards # << >>
        /\ Last(walkers[v].guards) = built[walkers[v].start].arg
        /\ Last(walkers[w].guards) = built[walkers[w].start].arg
        /\ heap[built[walkers[v].start].arg].readers >= 2

\* the live containers whose base points to the node
Pointing(id) ==
    {n \in Nodes : heap[n].alive /\ heap[n].value.base = Internal(id)}

\* the owners of the node: the handles of the caller, the containers that
\* point to it, and the handles the walks own
Owners(id) ==
    handles[id]
        + Cardinality(Pointing(id))
        + Cardinality({w \in Walkers : walkers[w].current = id})
        + Cardinality({w \in Walkers : walkers[w].next = id})

\* C19: a node is owned jointly by every handle and every container that
\* points to it: in every reachable state it is not destroyed while at
\* least one owner exists and it is destroyed once the last owner is, its
\* reference count being the number of its owners; so a base node whose
\* handle the caller has dropped stays readable through a derived container,
\* and no read guard is ever held on a destroyed node.
C19_AliveExactlyWhileOwned ==
    \A id \in Nodes :
        /\ heap[id].alive <=> Owners(id) > 0
        /\ heap[id].strong = Owners(id)
        /\ heap[id].readers > 0 => heap[id].alive
        /\ heap[id].alive /\ heap[id].value.base.variant = "Internal" =>
              heap[heap[id].value.base.arc].alive

\* the caller has dropped its handle to a base node that a derived
\* container keeps alive, and another node has been destroyed with its last
\* owner
C19_Witness ==
    /\ \E id \in Nodes :
          /\ handles[id] = 0
          /\ heap[id].alive
          /\ Pointing(id) # {}
    /\ \E id \in Nodes : ~heap[id].alive /\ Owners(id) = 0

\* the nodes whose lock the walk holds
Locked(w) == {walkers[w].guards[i] : i \in 1..Len(walkers[w].guards)}

\* the read guards held on the node, over all walks
GuardsOn(id) ==
    Cardinality({<<w, i>> \in Walkers \X (1..MaxNodes + 1) :
                    /\ i <= Len(walkers[w].guards)
                    /\ walkers[w].guards[i] = id})

\* C20 as stated: a lineage walk acquires and releases one node's lock at a
\* time: at no point of a traversal does the walker hold the locks of two
\* different nodes.
C20_OneLockAtATime ==
    \A w \in Walkers : Cardinality(Locked(w)) <= 1

\* C20, amended: the loop of test_container_deep_nesting holds one lock at
\* a time, that of the node it is at, and has released it before it moves
\* on; the nested matches of test_container_chaining and
\* test_container_real_world_usage take the lock of each node inside the
\* locks of the nodes above it, and so hold the read locks of every node
\* they have reached, each the node the one before links to, up to one more
\* than the levels they are written for; every guard is a read guard of a
\* live node and is counted by that node's lock.
C20_LocksHeldByAWalk ==
    /\ \A w \in Walking :
          LET walk == walkers[w]
          IN  /\ walk.style = "loop" =>
                    /\ Len(walk.guards) <= 1
                    /\ walk.guards # << >> => walk.guards = <<walk.current>>
                    /\ walk.pc \in {"read", "advance", "end"} =>
                          walk.guards = << >>
              /\ walk.style = "nested" =>
                    /\ Cardinality(Locked(w)) = Len(walk.guards)
                    /\ Len(walk.guards) <= walk.levels + 1
                    /\ walk.pc = "n_read" => Len(walk.guards) = walk.depth
                    /\ walk.pc = "n_match" =>
                          Len(walk.guards) = walk.depth + 1
                    /\ walk.guards # << >> => walk.guards[1] = walk.start
                    /\ \A i \in 2..Len(walk.guards) :
                          heap[walk.guards[i - 1]].value.base
                              = Internal(walk.guards[i])
    /\ \A id \in Nodes : heap[id].readers = GuardsOn(id)

\* a walk by nested matches holds the read locks of three different nodes
C20_Witness ==
    \E w \in Walking :
        /\ walkers[w].style = "nested"
        /\ walkers[w].pc = "n_match"
        /\ Cardinality(Locked(w)) = 3

\* C21: threads that walk lineages over shared nodes at the same time,
\* taking read locks only and moving from child to parent, never deadlock:
\* while the program runs, every walk under way can take its next step
\* whatever guards other threads hold, a read() included when other threads
\* hold read guards of the same lock; and every walk completes.
C21_ReadersNeverDeadlock ==
    /\ [](\A w \in Walking : Running => ENABLED WalkStep(w))
    /\ \A w \in Walkers : (w \in Walking) ~> (Ended(w) \/ ~Running)

\* one thread is about to call read() on a lock another thread holds a read
\* guard of
C21_Witness ==
    \E v \in Walking : \E w \in Walking :
        /\ v # w
        /\ walkers[v].pc \in {"read", "n_read"}
        /\ walkers[w].guards # << >>
        /\ \/ walkers[v].pc = "read"
              /\ walkers[v].current = Last(walkers[w].guards)
           \/ walkers[v].pc = "n_read"
              /\ walkers[v].cursor = Last(walkers[w].guards)

\* the container a links to the container b
Links(a, b) == heap[a].value.base = Internal(b)

\* the walks along Internal links, as sequences of nodes, of up to as many
\* links as there are nodes
Paths ==
    UNION { {p \in [1..(k + 1) -> Nodes] :
                \A i \in 1..k : Links(p[i], p[i + 1])} : k \in 1..Len(heap) }

\* C23: after any sequence of the construction operations (Container::from
\* on a string, on a selector, on a reference to an existing handle), with
\* handles cloned and dropped in between, no container reaches itself along
\* Internal links, directly or through others: every link goes to a node
\* allocated before the node that holds it.
C23_ConstructionBuildsNoCycle ==
    /\ \A a \in Nodes : \A b \in Nodes : Links(a, b) => b < a
    /\ \A p \in Paths : p[1] # p[Len(p)]

\* a chain of three containers, each linked to the one built before it
C23_Witness ==
    \E p \in Paths :
        /\ Len(p) = 3
        /\ \A i \in 1..3 : heap[p[i]].alive
        /\ built[p[1]].op = "arc"
        /\ built[p[2]].op = "arc"
        /\ heap[p[3]].value.base.variant = "External"

\* ------------------------------------------------------------------------
\* The parser again: the order of its checks, and the delimiters left in
\* the fields
\* ------------------------------------------------------------------------

\* "@digest" and "@" in small
DigestBeforeRepositoryExamples == { <<"@", "a">>, <<"@">> }

\* C22: the digest is checked before the repository: whenever the text
\* after the first '@' is malformed, parse returns InvalidDigestFormat, also
\* when the repository candidate is empty ("@digest" and "@" give
\* InvalidDigestFormat, not MissingRepository); and MissingRepository is
\* returned only for inputs without '@' or with a well-formed digest.
C22_DigestErrorTakesPrecedence ==
    Parsed =>
        /\ (HasChar(input, "@") /\ ~WellFormedDigest(AfterAt(input)))
              => /\ result.kind = "InvalidDigestFormat"
                 /\ result # MissingRepository
        /\ (\E e \in DigestBeforeRepositoryExamples : input = e)
              => result = InvalidDigestFormat(AfterAt(input))
        /\ result = MissingRepository
              => (~HasChar(input, "@") \/ WellFormedDigest(AfterAt(input)))

\* "@digest": both the digest is malformed and the repository is missing,
\* and the error is the one of the digest
C22_Witness ==
    /\ pc = "parsed"
    /\ input = <<"@", "a">>
    /\ RepoCandidate(input) = << >>
    /\ ~WellFormedDigest(AfterAt(input))
    /\ result = InvalidDigestFormat(<<"a">>)

\* C24 as stated: in every successful parse result the repository contains
\* neither '/' nor '@', the tag, if present, neither ':' nor '@', the
\* namespace, if present, no '@', and the digest algorithm, if present,
\* neither '=' nor '@'.
C24_FieldsHoldNoSeparator ==
    (Parsed /\ IsOk(result)) =>
        LET sel == result.selector
        IN  /\ ~HasChar(sel.repository, "/")
            /\ ~HasChar(sel.repository, "@")
            /\ IsSome(sel.tag) =>
                  /\ ~HasChar(Unwrap(sel.tag), ":")
                  /\ ~HasChar(Unwrap(sel.tag), "@")
            /\ IsSome(sel.namespace) => ~HasChar(Unwrap(sel.namespace), "@")
            /\ IsSome(sel.digest) =>
                  /\ ~HasChar(Unwrap(sel.digest).algorithm, "=")
                  /\ ~HasChar(Unwrap(sel.digest).algorithm, "@")

\* C24, amended: in every successful parse result the repository contains
\* neither '/' nor '@', the tag, if present, neither ':' nor '@', the
\* namespace, if present, no '@', and the digest algorithm, if present, no
\* '='; the algorithm is all the text between the first '@' and the first
\* '=' after it, any further '@' included, so it holds an '@' exactly when
\* that text does.
C24_FieldsHoldNoSeparatorButAt ==
    (Parsed /\ IsOk(result)) =>
        LET sel == result.selector
        IN  /\ ~HasChar(sel.repository, "/")
            /\ ~HasChar(sel.repository, "@")
            /\ IsSome(sel.tag) =>
                  /\ ~HasChar(Unwrap(sel.tag), ":")
                  /\ ~HasChar(Unwrap(sel.tag), "@")
            /\ IsSome(sel.namespace) => ~HasChar(Unwrap(sel.namespace), "@")
            /\ IsSome(sel.digest) =>
                  /\ ~HasChar(Unwrap(sel.digest).algorithm, "=")
                  /\ Unwrap(sel.digest).algorithm
                         = Before(AfterAt(input), FirstPos(AfterAt(input), "="))

\* "a@a@a=a" in small: the parse succeeds and the algorithm is "a@a"
C24_Witness ==
    /\ pc = "parsed"
    /\ IsOk(result)
    /\ IsSome(result.selector.digest)
    /\ HasChar(Unwrap(result.selector.digest).algorithm, "@")
    /\ result.selector.repository # << >>

====
